---- MODULE Spec2Model ----
(***************************************************************************)
(* Model of the ad-monitor service (src/main.py): the event store          *)
(* (heartbeats, playback events), the liveness / attribution query and     *)
(* the provisioning handlers that create companies, screens and ads.       *)
(*                                                                         *)
(* Time is counted in whole seconds.  A nullable column or an Optional     *)
(* field is modelled as a set: {} is None, {v} is the value v.  The tables *)
(* are sequences in insertion order; the primary key of a row is its       *)
(* position, since no handler ever deletes a row.                          *)
(***************************************************************************)
EXTENDS Integers, Sequences, FiniteSets, TLC

VARIABLES companies, screens, ads, heartbeats, playback_events, distributors,
          now, call, resp, txn

vars == <<companies, screens, ads, heartbeats, playback_events, distributors,
          now, call, resp, txn>>

db == <<companies, screens, ads, heartbeats, playback_events>>

(***************************************************************************)
(* Bounds of the model                                                     *)
(***************************************************************************)
MaxScreens == 2
MaxAds == 2
MaxHeartbeats == 2
MaxPlayback == 1
\* threads of the server that may run the heartbeat handler at the same time
MaxWorkers == 2

\* the clock readings at which requests are served (seconds)
Instants == {0, 2, 121, 122}
\* the values a client may send; an id is unknown as long as the table has
\* fewer rows
CompanyIds == {1, 2}
ScreenIds == {1, 2}
AdIds == {1, 2}
PlayerStatuses == {{}, {"ok"}}
PlaybackTimes == {0, 60}
PlaybackStatuses == {{}, {"failed"}}

(***************************************************************************)
(* Program constants                                                       *)
(***************************************************************************)
ONLINE_THRESHOLD == 120
OTHER_COMPANY_OFFSET == 999

None == {}
Some(v) == {v}
Value(opt) == CHOOSE v \in opt : TRUE
\* Python's `x or default` on an Optional[str]
OrDefault(opt, default) == IF opt = None THEN default ELSE Value(opt)

(***************************************************************************)
(* Rows                                                                    *)
(***************************************************************************)
Company(id) == [id |-> id]
Screen(id, company_id) ==
    [id |-> id, company_id |-> company_id, last_heartbeat_at |-> None, status |-> "offline"]
Ad(id, owner_company_id) == [id |-> id, owner_company_id |-> owner_company_id]
Heartbeat(id, screen_id, timestamp, current_ad_id, player_status) ==
    [id |-> id, screen_id |-> screen_id, timestamp |-> timestamp,
     current_ad_id |-> current_ad_id, player_status |-> player_status]
PlaybackEvent(id, screen_id, ad_id, started_at, ended_at, status) ==
    [id |-> id, screen_id |-> screen_id, ad_id |-> ad_id,
     started_at |-> started_at, ended_at |-> ended_at, status |-> status]

\* request bodies
HeartbeatIn == [screen_id : ScreenIds, current_ad_id : {None} \cup {Some(a) : a \in AdIds},
                player_status : PlayerStatuses]
PlaybackEventIn == [screen_id : ScreenIds, ad_id : AdIds,
                    started_at : PlaybackTimes, ended_at : PlaybackTimes,
                    status : PlaybackStatuses]

(***************************************************************************)
(* Queries                                                                 *)
(***************************************************************************)
\* db.query(Screen).filter(Screen.id == id).first()
ScreenExists(id) == id \in 1..Len(screens)
\* db.query(Ad).filter(Ad.id == id).first()
AdExists(id) == id \in 1..Len(ads)

HeartbeatsOf_any_screen(screen_id) == 1..Len(heartbeats)

\* db.query(Heartbeat).filter(Heartbeat.screen_id == screen_id): the row ids
HeartbeatsOf(screen_id) ==
    {i \in 1..Len(heartbeats) : heartbeats[i].screen_id = screen_id}

LatestHeartbeats_asc(screen_id) ==
    {i \in HeartbeatsOf(screen_id) :
        \A j \in HeartbeatsOf(screen_id) :
            heartbeats[j].timestamp >= heartbeats[i].timestamp}

\* The rows that ORDER BY timestamp DESC may put first: the order of rows
\* with equal timestamps is not fixed by the query.
LatestHeartbeats(screen_id) ==
    {i \in HeartbeatsOf(screen_id) :
        \A j \in HeartbeatsOf(screen_id) :
            heartbeats[j].timestamp <= heartbeats[i].timestamp}

HTTPException(status_code, detail) == [status_code |-> status_code, detail |-> detail]
Ok(body) == [status_code |-> 200, body |-> body]


IsOnline_strict(age) == age < ONLINE_THRESHOLD

\* line 379: online = diff.total_seconds() <= 120
IsOnline(age) == age <= ONLINE_THRESHOLD

\* lines 369-375: the screen has no heartbeat
NoHeartbeatsResponse(screen_id) ==
    Ok([screen_id |-> screen_id, online |-> FALSE, current_ad |-> None,
        message |-> "No heartbeats yet"])

CurrentAdResponse_hidden_when_offline(company_id, screen_id, hb, t) ==
    LET online == IsOnline(t - hb.timestamp) IN
    IF hb.current_ad_id = None
    THEN Ok([screen_id |-> screen_id, online |-> online, current_ad |-> None,
             message |-> "No ad currently reported"])
    ELSE IF ~AdExists(Value(hb.current_ad_id))
    THEN Ok([screen_id |-> screen_id, online |-> online, current_ad |-> None,
             message |-> "Unknown ad"])
    ELSE IF ~online
    THEN Ok([screen_id |-> screen_id, online |-> online, current_ad |-> None,
             message |-> "Screen offline"])
    ELSE LET ad == ads[Value(hb.current_ad_id)] IN
         Ok([screen_id |-> screen_id, online |-> online,
             current_ad |-> Some([id |-> ad.id,
                                  owner_company_id |-> ad.owner_company_id,
                                  is_yours |-> (ad.owner_company_id = company_id)]),
             last_heartbeat_at |-> hb.timestamp])

CurrentAdResponse_unknown_ad_raises(company_id, screen_id, hb, t) ==
    LET online == IsOnline(t - hb.timestamp) IN
    IF hb.current_ad_id = None
    THEN Ok([screen_id |-> screen_id, online |-> online, current_ad |-> None,
             message |-> "No ad currently reported"])
    ELSE IF ~AdExists(Value(hb.current_ad_id))
    THEN HTTPException(500, "Internal Server Error")
    ELSE LET ad == ads[Value(hb.current_ad_id)] IN
         Ok([screen_id |-> screen_id, online |-> online,
             current_ad |-> Some([id |-> ad.id,
                                  owner_company_id |-> ad.owner_company_id,
                                  is_yours |-> (ad.owner_company_id = company_id)]),
             last_heartbeat_at |-> hb.timestamp])

CurrentAdResponse_screen_owner(company_id, screen_id, hb, t) ==
    LET online == IsOnline(t - hb.timestamp) IN
    IF hb.current_ad_id = None
    THEN Ok([screen_id |-> screen_id, online |-> online, current_ad |-> None,
             message |-> "No ad currently reported"])
    ELSE IF ~AdExists(Value(hb.current_ad_id))
    THEN Ok([screen_id |-> screen_id, online |-> online, current_ad |-> None,
             message |-> "Unknown ad"])
    ELSE LET ad == ads[Value(hb.current_ad_id)] IN
         Ok([screen_id |-> screen_id, online |-> online,
             current_ad |-> Some([id |-> ad.id,
                                  owner_company_id |-> ad.owner_company_id,
                                  is_yours |-> (screens[screen_id].company_id = company_id)]),
             last_heartbeat_at |-> hb.timestamp])

\* lines 377-410: the response built from the latest heartbeat hb at clock
\* reading t; last_heartbeat_at is a key of the last response only
CurrentAdResponse(company_id, screen_id, hb, t) ==
    LET online == IsOnline(t - hb.timestamp) IN
    IF hb.current_ad_id = None
    THEN Ok([screen_id |-> screen_id, online |-> online, current_ad |-> None,
             message |-> "No ad currently reported"])
    ELSE IF ~AdExists(Value(hb.current_ad_id))
    THEN Ok([screen_id |-> screen_id, online |-> online, current_ad |-> None,
             message |-> "Unknown ad"])
    ELSE LET ad == ads[Value(hb.current_ad_id)] IN
         Ok([screen_id |-> screen_id, online |-> online,
             current_ad |-> Some([id |-> ad.id,
                                  owner_company_id |-> ad.owner_company_id,
                                  is_yours |-> (ad.owner_company_id = company_id)]),
             last_heartbeat_at |-> hb.timestamp])

\* lines 357-410: the responses current_ad_for_company may give at clock
\* reading t in the current state of the tables
CurrentAdResponses(company_id, screen_id, t) ==
    IF ~ScreenExists(screen_id)
    THEN {HTTPException(404, "Screen not found")}
    ELSE IF HeartbeatsOf(screen_id) = {}
    THEN {NoHeartbeatsResponse(screen_id)}
    ELSE {CurrentAdResponse(company_id, screen_id, heartbeats[i], t) :
            i \in LatestHeartbeats(screen_id)}

\* the heartbeat requests whose handler has read the clock and not committed
Workers == 1..MaxWorkers
Idle == [pc |-> "idle"]

\* no request is being served
NoCall == [op |-> "none"]
NoResponse == [status_code |-> 0]

(***************************************************************************)
(* Initial state: the tables as create_all leaves them, no request served  *)
(***************************************************************************)
Init ==
    /\ companies = <<>>
    /\ screens = <<>>
    /\ ads = <<>>
    /\ heartbeats = <<>>
    /\ playback_events = <<>>
    /\ distributors = <<>>
    /\ now = 0
    /\ call = NoCall
    /\ resp = NoResponse
    /\ txn = [w \in Workers |-> Idle]

Tick_expiring(t) ==
    /\ UNCHANGED <<txn, distributors>>
    /\ t > now
    /\ now' = t
    /\ call' = NoCall
    /\ resp' = NoResponse
    /\ screens' = [s \in 1..Len(screens) |->
           IF /\ screens[s].last_heartbeat_at # None
              /\ ~IsOnline(t - Value(screens[s].last_heartbeat_at))
           THEN [screens[s] EXCEPT !.status = "offline"]
           ELSE screens[s]]
    /\ UNCHANGED <<companies, ads, heartbeats, playback_events>>

(***************************************************************************)
(* The clock (datetime.utcnow) advances between requests.  call and resp   *)
(* are the request served at the current clock reading and its response;   *)
(* once the clock moves on no request is being served.                     *)
(***************************************************************************)
Tick(t) ==
    /\ UNCHANGED <<txn, distributors>>
    /\ t > now
    /\ now' = t
    /\ call' = NoCall
    /\ resp' = NoResponse
    /\ UNCHANGED db

(***************************************************************************)
(* Provisioning handlers                                                   *)
(***************************************************************************)
\* POST /api/setup-sample
setup_sample ==
    /\ UNCHANGED <<txn, distributors>>
    /\ call' = [op |-> "setup_sample"]
    /\ IF Len(companies) > 0
       THEN /\ resp' = Ok([message |-> "Sample already exists",
                           company_id |-> companies[1].id])
            /\ UNCHANGED <<db, now>>
       ELSE LET central == Len(companies) + 1
                screen_id == Len(screens) + 1
                my_ad == Len(ads) + 1
                other_ad == Len(ads) + 2
            IN  /\ Len(screens) < MaxScreens
                /\ Len(ads) + 2 <= MaxAds
                /\ companies' = Append(companies, Company(central))
                /\ screens' = Append(screens, Screen(screen_id, central))
                /\ ads' = ads \o <<Ad(my_ad, central),
                                   Ad(other_ad, central + OTHER_COMPANY_OFFSET)>>
                /\ resp' = Ok([message |-> "Sample data created",
                               company_id |-> central, screen_id |-> screen_id,
                               my_ad_id |-> my_ad, other_ad_id |-> other_ad])
                /\ UNCHANGED <<heartbeats, playback_events, now>>

\* POST /api/screens/create
create_screen(company_id) ==
    /\ UNCHANGED <<txn, distributors>>
    /\ Len(screens) < MaxScreens
    /\ call' = [op |-> "create_screen"]
    /\ screens' = Append(screens, Screen(Len(screens) + 1, company_id))
    /\ resp' = Ok([id |-> Len(screens) + 1, company_id |-> company_id])
    /\ UNCHANGED <<companies, ads, heartbeats, playback_events, now>>

\* POST /api/screens/create-bulk
create_bulk_screens(count, company_id) ==
    /\ UNCHANGED <<txn, distributors>>
    /\ Len(screens) + count <= MaxScreens
    /\ call' = [op |-> "create_bulk_screens", count |-> count]
    /\ screens' = screens \o [i \in 1..count |-> Screen(Len(screens) + i, company_id)]
    /\ resp' = Ok([message |-> "screens created", count |-> count,
                   screens |-> [i \in 1..count |-> Len(screens) + i]])
    /\ UNCHANGED <<companies, ads, heartbeats, playback_events, now>>

\* POST /api/ads/upload
upload_ad(owner_company_id) ==
    /\ UNCHANGED <<txn, distributors>>
    /\ Len(ads) < MaxAds
    /\ call' = [op |-> "upload_ad"]
    /\ ads' = Append(ads, Ad(Len(ads) + 1, owner_company_id))
    /\ resp' = Ok([message |-> "Ad uploaded",
                   ad |-> [id |-> Len(ads) + 1, owner_company_id |-> owner_company_id]])
    /\ UNCHANGED <<companies, screens, heartbeats, playback_events, now>>

(***************************************************************************)
(* Event ingestion                                                         *)
(***************************************************************************)
heartbeat_unchecked(hb) ==
    /\ UNCHANGED <<txn, distributors>>
    /\ call' = [op |-> "heartbeat", screen_id |-> hb.screen_id]
    /\ Len(heartbeats) < MaxHeartbeats
    /\ heartbeats' = Append(heartbeats,
           Heartbeat(Len(heartbeats) + 1, hb.screen_id, now,
                     hb.current_ad_id, OrDefault(hb.player_status, "ok")))
    /\ screens' = [i \in 1..Len(screens) |->
           IF i = hb.screen_id
           THEN [screens[i] EXCEPT !.last_heartbeat_at = Some(now), !.status = "online"]
           ELSE screens[i]]
    /\ resp' = Ok([message |-> "heartbeat received", timestamp |-> now])
    /\ UNCHANGED <<companies, ads, playback_events, now>>

heartbeat_all_screens(hb) ==
    /\ UNCHANGED <<txn, distributors>>
    /\ call' = [op |-> "heartbeat", screen_id |-> hb.screen_id]
    /\ IF ~ScreenExists(hb.screen_id)
       THEN /\ resp' = HTTPException(404, "Screen not found")
            /\ UNCHANGED <<db, now>>
       ELSE /\ Len(heartbeats) < MaxHeartbeats
            /\ heartbeats' = Append(heartbeats,
                   Heartbeat(Len(heartbeats) + 1, hb.screen_id, now,
                             hb.current_ad_id, OrDefault(hb.player_status, "ok")))
            /\ screens' = [i \in 1..Len(screens) |->
                   [screens[i] EXCEPT !.last_heartbeat_at = Some(now), !.status = "online"]]
            /\ resp' = Ok([message |-> "heartbeat received", timestamp |-> now])
            /\ UNCHANGED <<companies, ads, playback_events, now>>

heartbeat_upsert(hb) ==
    /\ UNCHANGED <<txn, distributors>>
    /\ call' = [op |-> "heartbeat", screen_id |-> hb.screen_id]
    /\ IF ~ScreenExists(hb.screen_id)
       THEN /\ resp' = HTTPException(404, "Screen not found")
            /\ UNCHANGED <<db, now>>
       ELSE LET old == HeartbeatsOf(hb.screen_id)
                row == IF old = {} THEN Len(heartbeats) + 1
                       ELSE CHOOSE i \in old : \A j \in old : j <= i
                new == Heartbeat(row, hb.screen_id, now, hb.current_ad_id,
                                 OrDefault(hb.player_status, "ok"))
            IN  /\ Len(heartbeats) < MaxHeartbeats
                /\ heartbeats' = IF old = {} THEN Append(heartbeats, new)
                                 ELSE [heartbeats EXCEPT ![row] = new]
                /\ screens' = [screens EXCEPT ![hb.screen_id] =
                       [@ EXCEPT !.last_heartbeat_at = Some(now), !.status = "online"]]
                /\ resp' = Ok([message |-> "heartbeat received", timestamp |-> now])
                /\ UNCHANGED <<companies, ads, playback_events, now>>

\* POST /api/events/heartbeat
heartbeat(hb) ==
    /\ UNCHANGED <<txn, distributors>>
    /\ call' = [op |-> "heartbeat", screen_id |-> hb.screen_id]
    /\ IF ~ScreenExists(hb.screen_id)
       THEN /\ resp' = HTTPException(404, "Screen not found")
            /\ UNCHANGED <<db, now>>
       ELSE LET now_ts == now IN
            /\ Len(heartbeats) < MaxHeartbeats
            /\ heartbeats' = Append(heartbeats,
                   Heartbeat(Len(heartbeats) + 1, hb.screen_id, now_ts,
                             hb.current_ad_id, OrDefault(hb.player_status, "ok")))
            /\ screens' = [screens EXCEPT ![hb.screen_id] =
                   [@ EXCEPT !.last_heartbeat_at = Some(now_ts), !.status = "online"]]
            /\ resp' = Ok([message |-> "heartbeat received", timestamp |-> now_ts])
            /\ UNCHANGED <<companies, ads, playback_events, now>>

playback_event_ad_unchecked(ev) ==
    /\ UNCHANGED <<txn, distributors>>
    /\ call' = [op |-> "playback_event", screen_id |-> ev.screen_id, ad_id |-> ev.ad_id]
    /\ IF ~ScreenExists(ev.screen_id)
       THEN /\ resp' = HTTPException(404, "Screen not found")
            /\ UNCHANGED <<db, now>>
       ELSE /\ Len(playback_events) < MaxPlayback
            /\ playback_events' = Append(playback_events,
                   PlaybackEvent(Len(playback_events) + 1, ev.screen_id, ev.ad_id,
                                 ev.started_at, ev.ended_at,
                                 OrDefault(ev.status, "success")))
            /\ resp' = Ok([message |-> "playback recorded"])
            /\ UNCHANGED <<companies, screens, ads, heartbeats, now>>

\* POST /api/events/playback
playback_event(ev) ==
    /\ UNCHANGED <<txn, distributors>>
    /\ call' = [op |-> "playback_event", screen_id |-> ev.screen_id, ad_id |-> ev.ad_id]
    /\ IF ~ScreenExists(ev.screen_id)
       THEN /\ resp' = HTTPException(404, "Screen not found")
            /\ UNCHANGED <<db, now>>
       ELSE IF ~AdExists(ev.ad_id)
       THEN /\ resp' = HTTPException(404, "Ad not found")
            /\ UNCHANGED <<db, now>>
       ELSE /\ Len(playback_events) < MaxPlayback
            /\ playback_events' = Append(playback_events,
                   PlaybackEvent(Len(playback_events) + 1, ev.screen_id, ev.ad_id,
                                 ev.started_at, ev.ended_at,
                                 OrDefault(ev.status, "success")))
            /\ resp' = Ok([message |-> "playback recorded"])
            /\ UNCHANGED <<companies, screens, ads, heartbeats, now>>

(***************************************************************************)
(* Liveness / attribution query                                            *)
(***************************************************************************)
current_ad_for_company_refreshing(company_id, screen_id) ==
    /\ UNCHANGED <<txn, distributors>>
    /\ call' = [op |-> "current_ad_for_company",
                company_id |-> company_id, screen_id |-> screen_id]
    /\ resp' \in CurrentAdResponses(company_id, screen_id, now)
    /\ screens' = IF /\ ScreenExists(screen_id)
                     /\ resp'.status_code = 200
                     /\ ~resp'.body.online
                  THEN [screens EXCEPT ![screen_id] = [@ EXCEPT !.status = "offline"]]
                  ELSE screens
    /\ UNCHANGED <<companies, ads, heartbeats, playback_events, now>>

\* GET /api/companies/{company_id}/screens/{screen_id}/current-ad
current_ad_for_company(company_id, screen_id) ==
    /\ UNCHANGED <<txn, distributors>>
    /\ call' = [op |-> "current_ad_for_company",
                company_id |-> company_id, screen_id |-> screen_id]
    /\ resp' \in CurrentAdResponses(company_id, screen_id, now)
    /\ UNCHANGED <<db, now>>

(***************************************************************************)
(* The heartbeat handler as the thread pool runs it: every request has its *)
(* own session.  The handler looks the screen up and reads the clock       *)
(* (lines 304-309); its INSERT and its UPDATE of the screen row reach the  *)
(* database together at db.commit() (lines 311-322).  Screens are never    *)
(* deleted, so the lookup and the clock reading are one step.              *)
(***************************************************************************)
InFlight == {w \in Workers : txn[w].pc = "commit"}

hb_begin(w, hb) ==
    /\ txn[w].pc = "idle"
    /\ IF ~ScreenExists(hb.screen_id)
       THEN /\ call' = [op |-> "heartbeat", screen_id |-> hb.screen_id]
            /\ resp' = HTTPException(404, "Screen not found")
            /\ UNCHANGED <<db, distributors, now, txn>>
       ELSE /\ Len(heartbeats) + Cardinality(InFlight) < MaxHeartbeats
            /\ txn' = [txn EXCEPT ![w] = [pc |-> "commit", hb |-> hb, now_ts |-> now]]
            /\ UNCHANGED <<db, distributors, now, call, resp>>

hb_commit(w) ==
    /\ txn[w].pc = "commit"
    /\ LET hb == txn[w].hb
           now_ts == txn[w].now_ts
       IN  /\ heartbeats' = Append(heartbeats,
                  Heartbeat(Len(heartbeats) + 1, hb.screen_id, now_ts,
                            hb.current_ad_id, OrDefault(hb.player_status, "ok")))
           /\ screens' = [screens EXCEPT ![hb.screen_id] =
                  [@ EXCEPT !.last_heartbeat_at = Some(now_ts), !.status = "online"]]
           /\ call' = [op |-> "heartbeat", screen_id |-> hb.screen_id]
           /\ resp' = Ok([message |-> "heartbeat received", timestamp |-> now_ts])
    /\ txn' = [txn EXCEPT ![w] = Idle]
    /\ UNCHANGED <<companies, ads, playback_events, distributors, now>>

\* The liveness engine: provisioning, both ingestion handlers, the clock and
\* the liveness / attribution query.  Screens are provisioned for the central
\* company, heartbeats report ad 1 or no ad, and the playback events are
\* reports of one fixed play.
LiveHeartbeatIn ==
    {hb \in HeartbeatIn : hb.current_ad_id \in {None, Some(1)}}

LivePlaybackIn ==
    {ev \in PlaybackEventIn :
        /\ ev.screen_id = 1 /\ ev.ad_id = 1
        /\ ev.started_at = 0 /\ ev.ended_at = 60 /\ ev.status = None}

Next ==
    \/ \E t \in Instants : Tick(t)
    \/ setup_sample
    \/ create_screen(1)
    \/ upload_ad(2)
    \/ \E hb \in LiveHeartbeatIn : heartbeat(hb)
    \/ \E ev \in LivePlaybackIn : playback_event(ev)
    \/ \E c \in CompanyIds, s \in ScreenIds : current_ad_for_company(c, s)

Spec == Init /\ [][Next]_vars

\* The ingestion boundary: provisioning with every owner and both ingestion
\* handlers with every request body; no handler here reads the clock.
NextIngest ==
    \/ setup_sample
    \/ \E c \in CompanyIds : create_screen(c)
    \/ \E n \in 0..MaxScreens, c \in CompanyIds : create_bulk_screens(n, c)
    \/ \E c \in CompanyIds : upload_ad(c)
    \/ \E ev \in PlaybackEventIn : playback_event(ev)

SpecIngest == Init /\ [][NextIngest]_vars

\* Concurrent heartbeat ingestion: screens of the central company, the clock
\* and the two steps of the heartbeat handler in every worker.
ConcHeartbeatIn ==
    {hb \in HeartbeatIn : hb.current_ad_id = None /\ hb.player_status = None}

NextConc ==
    \/ \E t \in Instants : Tick(t)
    \/ create_screen(1)
    \/ \E w \in Workers, hb \in ConcHeartbeatIn : hb_begin(w, hb)
    \/ \E w \in Workers : hb_commit(w)

SpecConc == Init /\ [][NextConc]_vars

(***************************************************************************)
(* Uptime metrics.  Instant 0 of the model is 1970-01-01T00:00:00; a       *)
(* percentage is kept in hundredths of a percent, the two decimals that    *)
(* round(x, 2) leaves.                                                     *)
(***************************************************************************)
SECONDS_PER_MINUTE == 60
\* minutes from datetime.min (0001-01-01T00:00:00) to instant 0
DATETIME_MIN_MINUTES == 1035593280

\* what the server answers when a handler raises
Unhandled(exception) == [status_code |-> 500, detail |-> exception]

\* n / d for d > 0, rounded to the nearest integer, an exact half to even
RoundDiv(n, d) ==
    LET q == n \div d
        r == n % d
    IN  IF 2 * r < d THEN q
        ELSE IF 2 * r > d THEN q + 1
        ELSE IF q % 2 = 0 THEN q ELSE q + 1

\* now - timedelta(minutes=window_minutes) leaves the range of datetime
WindowStartOverflows(window_minutes, t) ==
    window_minutes > DATETIME_MIN_MINUTES + (t \div SECONDS_PER_MINUTE)

WindowHeartbeats_no_lower_bound(screen_id, window_start, t) ==
    {i \in 1..Len(heartbeats) :
        /\ heartbeats[i].screen_id = screen_id
        /\ heartbeats[i].timestamp <= t}

\* the heartbeats of a screen with window_start <= timestamp <= t
WindowHeartbeats(screen_id, window_start, t) ==
    {i \in 1..Len(heartbeats) :
        /\ heartbeats[i].screen_id = screen_id
        /\ heartbeats[i].timestamp >= window_start
        /\ heartbeats[i].timestamp <= t}

\* order_by(timestamp.asc()).first() and order_by(timestamp.desc()).first()
FirstTimestamp(rows) ==
    CHOOSE ts \in {heartbeats[i].timestamp : i \in rows} :
        \A j \in rows : ts <= heartbeats[j].timestamp
LastTimestamp(rows) ==
    CHOOSE ts \in {heartbeats[i].timestamp : i \in rows} :
        \A j \in rows : ts >= heartbeats[j].timestamp

\* max(0.0, min(100.0, observed / total * 100.0)) for total # 0, as the
\* numerator of a fraction with denominator |total|
Clamped(observed, total) ==
    LET n == IF total < 0 THEN -(observed * 100) ELSE observed * 100
        d == IF total < 0 THEN -total ELSE total
    IN  IF n < 0 THEN 0 ELSE IF n > 100 * d THEN 100 * d ELSE n

Magnitude(total) == IF total < 0 THEN -total ELSE total

UptimePercent_first_to_now(rows, total, t) ==
    LET observed == t - FirstTimestamp(rows)
    IN  RoundDiv(Clamped(observed, total) * 100, Magnitude(total))

UptimePercent_minutes(rows, total, t) ==
    LET observed == LastTimestamp(rows) - FirstTimestamp(rows)
    IN  RoundDiv(observed * 100 * 100, total \div SECONDS_PER_MINUTE)

UptimePercent_per_beat(rows, total, t) ==
    LET observed == Cardinality(rows) * SECONDS_PER_MINUTE
    IN  RoundDiv(Clamped(observed, total) * 100, Magnitude(total))

\* round(uptime_percent, 2) of a screen with heartbeats rows in the window
UptimePercent(rows, total, t) ==
    LET observed == LastTimestamp(rows) - FirstTimestamp(rows)
    IN  RoundDiv(Clamped(observed, total) * 100, Magnitude(total))

\* the screens whose percentage divides by a zero total
DividesByZero(window_minutes, t) ==
    {s \in 1..Len(screens) :
        /\ window_minutes * SECONDS_PER_MINUTE = 0
        /\ WindowHeartbeats(s, t - window_minutes * SECONDS_PER_MINUTE, t) # {}}

UptimeResult(s, window_minutes, t) ==
    LET total == window_minutes * SECONDS_PER_MINUTE
        rows == WindowHeartbeats(s, t - total, t)
    IN  [screen_id |-> s, window_minutes |-> window_minutes,
         uptime_percent |-> IF rows = {} THEN 0 ELSE UptimePercent(rows, total, t)]

\* GET /api/metrics/uptime?window_minutes=
uptime_metrics(window_minutes) ==
    /\ UNCHANGED <<txn, distributors>>
    /\ call' = [op |-> "uptime_metrics", window_minutes |-> window_minutes]
    /\ resp' = IF WindowStartOverflows(window_minutes, now)
               THEN Unhandled("OverflowError")
               ELSE IF DividesByZero(window_minutes, now) # {}
               THEN Unhandled("ZeroDivisionError")
               ELSE Ok([s \in 1..Len(screens) |-> UptimeResult(s, window_minutes, now)])
    /\ UNCHANGED <<db, now>>

\* The uptime computation over every heartbeat log that sequential ingestion
\* can leave behind: screens of the central company, up to MaxLog heartbeats
\* in clock order, the cached screen fields as the last heartbeat set them
\* and the clock at the last heartbeat.
MaxLog == 3
WindowMinutes == {-1, 0, 1, 2, 3, DATETIME_MIN_MINUTES + 3}

LogRows == [screen_id : ScreenIds, timestamp : Instants]

Logs ==
    {log \in UNION {[1..n -> LogRows] : n \in 0..MaxLog} :
        \A i \in 1..Len(log) - 1 : log[i].timestamp <= log[i + 1].timestamp}

LoggedScreen(s, log) ==
    LET rows == {i \in 1..Len(log) : log[i].screen_id = s}
        last == CHOOSE i \in rows : \A j \in rows : j <= i
    IN  IF rows = {} THEN Screen(s, 1)
        ELSE [Screen(s, 1) EXCEPT !.last_heartbeat_at = Some(log[last].timestamp),
                                  !.status = "online"]

InitUptime ==
    /\ companies = <<>>
    /\ ads = <<>>
    /\ playback_events = <<>>
    /\ distributors = <<>>
    /\ \E log \in Logs :
        /\ heartbeats = [i \in 1..Len(log) |->
               Heartbeat(i, log[i].screen_id, log[i].timestamp, None, "ok")]
        /\ screens = [s \in 1..MaxScreens |-> LoggedScreen(s, log)]
        /\ now = IF Len(log) = 0 THEN 0 ELSE log[Len(log)].timestamp
    /\ call = NoCall
    /\ resp = NoResponse
    /\ txn = [w \in Workers |-> Idle]

NextUptime ==
    \/ \E t \in Instants : Tick(t)
    \/ \E w \in WindowMinutes : uptime_metrics(w)

SpecUptime == InitUptime /\ [][NextUptime]_vars

(***************************************************************************)
(* Calendar windows.  datetime(now.year, now.month, now.day) and           *)
(* replace(day=1) work on the proleptic Gregorian calendar; a date is      *)
(* modelled by its number of days since 1970-01-01.                        *)
(***************************************************************************)
SECONDS_PER_DAY == 86400
MONTH_STEP_DAYS == 32

\* the date [year, month, day] of day number z
CivilFromDays(z) ==
    LET z1 == z + 719468
        era == z1 \div 146097
        doe == z1 - era * 146097
        yoe == (doe - (doe \div 1460) + (doe \div 36524) - (doe \div 146096)) \div 365
        doy == doe - (365 * yoe + (yoe \div 4) - (yoe \div 100))
        mp == (5 * doy + 2) \div 153
        m == IF mp < 10 THEN mp + 3 ELSE mp - 9
    IN  [year |-> yoe + era * 400 + (IF m <= 2 THEN 1 ELSE 0),
         month |-> m,
         day |-> doy - ((153 * mp + 2) \div 5) + 1]

\* the day number of the date year-month-day
DaysFromCivil(year, month, day) ==
    LET y == year - (IF month <= 2 THEN 1 ELSE 0)
        era == y \div 400
        yoe == y - era * 400
        mp == IF month > 2 THEN month - 3 ELSE month + 9
        doy == ((153 * mp + 2) \div 5) + day - 1
        doe == yoe * 365 + (yoe \div 4) - (yoe \div 100) + doy
    IN  era * 146097 + doe - 719468

StartOfDay(t) == t - (t % SECONDS_PER_DAY)
EndOfDay(t) == StartOfDay(t) + SECONDS_PER_DAY

StartOfMonth(t) ==
    LET d == CivilFromDays(t \div SECONDS_PER_DAY)
    IN  DaysFromCivil(d.year, d.month, 1) * SECONDS_PER_DAY

EndOfMonth_no_reset(t) == StartOfMonth(t) + MONTH_STEP_DAYS * SECONDS_PER_DAY

\* (start_of_month + timedelta(days=32)).replace(day=1)
EndOfMonth(t) ==
    LET d == CivilFromDays((StartOfMonth(t) \div SECONDS_PER_DAY) + MONTH_STEP_DAYS)
    IN  DaysFromCivil(d.year, d.month, 1) * SECONDS_PER_DAY

RECURSIVE SumSeq(_)
SumSeq(seq) == IF seq = <<>> THEN 0 ELSE Head(seq) + SumSeq(Tail(seq))

(***************************************************************************)
(* Distributor sign-up: every sign-up creates a company of its own.        *)
(***************************************************************************)
OTP_VALID_SECONDS == 600

Emails == {"d@x.io", " D@X.io"}
Passwords == {"pw"}
Otps == {"100000", "999999"}

\* email.strip().lower() on the addresses of the model
StripLower(email) == IF email = " D@X.io" THEN "d@x.io" ELSE email

Distributor(id, email, password, company_id, otp_code, otp_expires_at) ==
    [id |-> id, email |-> email, username |-> email, password |-> password,
     company_id |-> company_id, is_verified |-> FALSE,
     otp_code |-> Some(otp_code), otp_expires_at |-> Some(otp_expires_at),
     login_otp |-> None, login_otp_expires_at |-> None, last_login_at |-> None]

DistributorsNamed(username) ==
    {i \in 1..Len(distributors) : distributors[i].username = username}

\* POST /signup; otp is what random.randint draws
signup_post(raw_email, password, otp) ==
    LET email == StripLower(raw_email)
        company_id == Len(companies) + 1
    IN  /\ call' = [op |-> "signup_post", email |-> email]
        /\ IF \E i \in 1..Len(distributors) : distributors[i].email = email
           THEN /\ resp' = HTTPException(400, "Email already registered")
                /\ UNCHANGED <<companies, distributors>>
           ELSE /\ companies' = Append(companies, Company(company_id))
                /\ distributors' = Append(distributors,
                       Distributor(Len(distributors) + 1, email, password, company_id,
                                   otp, now + OTP_VALID_SECONDS))
                /\ resp' = Ok([page |-> "verify_otp", email |-> email])
        /\ UNCHANGED <<screens, ads, heartbeats, playback_events, now, txn>>

(***************************************************************************)
(* GET /dashboard                                                          *)
(***************************************************************************)
USERS == {"master"}
DASHBOARD_WINDOW_MINUTES == 60

Redirect(location) == [status_code |-> 303, location |-> location]

\* the user that the cookies username and role identify, if any
get_current_user(username, role) ==
    IF username = None \/ role = None THEN None
    ELSE IF Value(role) = "master"
    THEN IF Value(username) \in USERS
         THEN Some([username |-> Value(username), role |-> "master"])
         ELSE None
    ELSE IF Value(role) = "distributor"
    THEN IF DistributorsNamed(Value(username)) # {}
         THEN Some([username |-> Value(username), role |-> "distributor"])
         ELSE None
    ELSE None

ScreensOfCompany_all(company_id) == screens

\* the screens of a company, in table order
ScreensOfCompany(company_id) ==
    SelectSeq(screens, LAMBDA s : s.company_id = company_id)

\* seconds played on the screens by the events started in [from, to)
PlaySeconds(screen_ids, from, to) ==
    SumSeq([i \in 1..Len(playback_events) |->
        IF /\ playback_events[i].screen_id \in screen_ids
           /\ playback_events[i].started_at >= from
           /\ playback_events[i].started_at < to
        THEN playback_events[i].ended_at - playback_events[i].started_at
        ELSE 0])

PlaysCount_successful(ad_id, from, to) ==
    Cardinality({i \in 1..Len(playback_events) :
        /\ playback_events[i].ad_id = ad_id
        /\ playback_events[i].status = "success"
        /\ playback_events[i].started_at >= from
        /\ playback_events[i].started_at < to})

PlaysCount_closed(ad_id, from, to) ==
    Cardinality({i \in 1..Len(playback_events) :
        /\ playback_events[i].ad_id = ad_id
        /\ playback_events[i].started_at >= from
        /\ playback_events[i].started_at <= to})

\* the number of playback events of an ad started in [from, to)
PlaysCount(ad_id, from, to) ==
    Cardinality({i \in 1..Len(playback_events) :
        /\ playback_events[i].ad_id = ad_id
        /\ playback_events[i].started_at >= from
        /\ playback_events[i].started_at < to})

\* the uptime of one screen over the last 60 minutes, unrounded: the
\* numerator of a fraction with denominator 60 * 60
ScreenUp(screen_id, t) ==
    LET total == DASHBOARD_WINDOW_MINUTES * SECONDS_PER_MINUTE
        rows == WindowHeartbeats(screen_id, t - total, t)
    IN  IF rows = {} THEN 0
        ELSE Clamped(LastTimestamp(rows) - FirstTimestamp(rows), total)

\* round(sum(screen_uptimes) / len(screen_uptimes), 2), 0.0 for no screens
AvgUptime(comp_screens, t) ==
    IF Len(comp_screens) = 0 THEN 0
    ELSE RoundDiv(
            SumSeq([i \in 1..Len(comp_screens) |-> ScreenUp(comp_screens[i].id, t)]) * 100,
            DASHBOARD_WINDOW_MINUTES * SECONDS_PER_MINUTE * Len(comp_screens))

MasterRow(c, t) ==
    LET comp_screens == ScreensOfCompany(c.id)
        screen_ids == {comp_screens[i].id : i \in 1..Len(comp_screens)}
    IN  [company_id |-> c.id,
         screens |-> Len(comp_screens),
         total_secs_today |-> PlaySeconds(screen_ids, StartOfDay(t), EndOfDay(t)),
         total_secs_month |-> PlaySeconds(screen_ids, StartOfMonth(t), EndOfMonth(t)),
         avg_uptime |-> AvgUptime(comp_screens, t)]

\* one row for every company that has a screen
MasterView(t) ==
    LET shown == SelectSeq(companies, LAMBDA c : Len(ScreensOfCompany(c.id)) > 0)
    IN  Ok([view |-> "master",
            rows |-> [i \in 1..Len(shown) |-> MasterRow(shown[i], t)]])

\* what the distributor sees of the first screen of the company
CurrentBlocks(comp_screens, t) ==
    IF Len(comp_screens) = 0 THEN {[screen |-> None]}
    ELSE LET s == comp_screens[1]
         IN  IF HeartbeatsOf(s.id) = {}
             THEN {[screen |-> Some(s.id), heartbeat |-> None]}
             ELSE {[screen |-> Some(s.id),
                    heartbeat |-> Some(heartbeats[i].timestamp),
                    online |-> IsOnline(t - heartbeats[i].timestamp),
                    current_ad |-> IF heartbeats[i].current_ad_id = None THEN "None"
                                   ELSE IF AdExists(Value(heartbeats[i].current_ad_id))
                                   THEN "ad" ELSE "Unknown"] :
                     i \in LatestHeartbeats(s.id)}

AdRow(ad, t) ==
    [ad_id |-> ad.id,
     plays_today |-> PlaysCount(ad.id, StartOfDay(t), EndOfDay(t)),
     plays_month |-> PlaysCount(ad.id, StartOfMonth(t), EndOfMonth(t))]

DistributorViews(username, t) ==
    IF DistributorsNamed(username) = {}
    THEN {HTTPException(400, "Unknown distributor user.")}
    ELSE LET db_dist == distributors[CHOOSE i \in DistributorsNamed(username) :
                                        \A j \in DistributorsNamed(username) : i <= j]
             own == SelectSeq(ads, LAMBDA a : a.owner_company_id = db_dist.company_id)
         IN  {Ok([view |-> "distributor",
                  company_id |-> db_dist.company_id,
                  current |-> current,
                  ads |-> [i \in 1..Len(own) |-> AdRow(own[i], t)]]) :
                current \in CurrentBlocks(ScreensOfCompany(db_dist.company_id), t)}

DashboardResponses(username, role, t) ==
    LET user == get_current_user(username, role)
    IN  IF user = None THEN {Redirect("/login")}
        ELSE IF Value(user).role = "master" THEN {MasterView(t)}
        ELSE DistributorViews(Value(user).username, t)

dashboard(username, role) ==
    /\ UNCHANGED <<txn, distributors>>
    /\ call' = [op |-> "dashboard", username |-> username, role |-> role]
    /\ resp' \in DashboardResponses(username, role, now)
    /\ UNCHANGED <<db, now>>

\* The master dashboard over screens of two companies: the sample company,
\* a distributor's company, screens for both, heartbeats that leave the
\* 60-minute window, and the three kinds of session cookie.
DashInstants == {0, 2, 1802, 3602}
DashHeartbeatIn ==
    {hb \in HeartbeatIn : hb.current_ad_id = None /\ hb.player_status = None}
Cookies ==
    {[username |-> None, role |-> None],
     [username |-> Some("master"), role |-> Some("master")],
     [username |-> Some("d@x.io"), role |-> Some("distributor")]}

NextDash ==
    \/ \E t \in DashInstants : Tick(t)
    \/ setup_sample
    \/ signup_post("d@x.io", "pw", "100000")
    \/ \E c \in CompanyIds : create_screen(c)
    \/ \E hb \in DashHeartbeatIn : heartbeat(hb)
    \/ \E k \in Cookies : dashboard(k.username, k.role)

SpecDash == Init /\ [][NextDash]_vars

(***************************************************************************)
(* GET /api/ads/{ad_id}/metrics/today                                      *)
(***************************************************************************)
ad_metrics_today(ad_id) ==
    /\ UNCHANGED <<txn, distributors>>
    /\ call' = [op |-> "ad_metrics_today", ad_id |-> ad_id]
    /\ resp' = IF ~AdExists(ad_id)
               THEN HTTPException(404, "Ad not found")
               ELSE Ok([ad_id |-> ad_id,
                        plays_today |-> PlaysCount(ad_id, StartOfDay(now), EndOfDay(now)),
                        day_start_utc |-> StartOfDay(now)])
    /\ UNCHANGED <<db, now>>

\* Play counting around midnight: the sample screen and ads, plays of both
\* ads that start on the day before instant 0, on its day and on the next,
\* with every kind of status, and the clock on both sides of a midnight.
DayInstants == {0, 86399, 86400}
DayStarts == {-1, 0, 86399, 86400}
DayPlaybackIn ==
    {[screen_id |-> 1, ad_id |-> a, started_at |-> st, ended_at |-> st + 30,
      status |-> status] :
        a \in AdIds, st \in DayStarts, status \in {None, Some("success"), Some("failed")}}

NextPlays ==
    \/ \E t \in DayInstants : Tick(t)
    \/ setup_sample
    \/ \E ev \in DayPlaybackIn : playback_event(ev)
    \/ \E a \in AdIds : ad_metrics_today(a)

SpecPlays == Init /\ [][NextPlays]_vars

\* Day attribution and play time: plays that start just before a midnight and
\* end after it, plays whose end precedes their start, the per-ad count and
\* the master dashboard's play seconds.
SpanPlaybackIn ==
    {[screen_id |-> 1, ad_id |-> a, started_at |-> st, ended_at |-> st + d,
      status |-> None] :
        a \in AdIds, st \in DayStarts, d \in {-60, 120}}

NextDay ==
    \/ \E t \in DayInstants : Tick(t)
    \/ setup_sample
    \/ \E ev \in SpanPlaybackIn : playback_event(ev)
    \/ \E a \in AdIds : ad_metrics_today(a)
    \/ dashboard(Some("master"), Some("master"))

SpecDay == Init /\ [][NextDay]_vars

(***************************************************************************)
(* Read-only listings                                                      *)
(***************************************************************************)
\* GET /api/screens
list_screens ==
    /\ UNCHANGED <<txn, distributors>>
    /\ call' = [op |-> "list_screens"]
    /\ resp' = Ok([i \in 1..Len(screens) |->
                     [id |-> screens[i].id, company_id |-> screens[i].company_id,
                      status |-> screens[i].status,
                      last_heartbeat_at |-> screens[i].last_heartbeat_at]])
    /\ UNCHANGED <<db, now>>

\* GET /api/ads
list_ads ==
    /\ UNCHANGED <<txn, distributors>>
    /\ call' = [op |-> "list_ads"]
    /\ resp' = Ok(ads)
    /\ UNCHANGED <<db, now>>

\* GET /api/screens/{screen_id}/playlist: every ad, for any screen id
get_playlist(screen_id) ==
    /\ UNCHANGED <<txn, distributors>>
    /\ call' = [op |-> "get_playlist", screen_id |-> screen_id]
    /\ resp' = Ok([screen_id |-> screen_id, playlist |-> ads])
    /\ UNCHANGED <<db, now>>

\* the first limit rows of a table in some descending order of keys, the
\* sort key of each row; a negative LIMIT is no limit, and rows with equal
\* keys come in any order
NewestFirst(table, keys, limit) ==
    LET n == Len(table)
        k == IF limit < 0 \/ limit > n THEN n ELSE limit
        orders == {f \in [1..n -> 1..n] :
                      /\ \A i, j \in 1..n : i # j => f[i] # f[j]
                      /\ \A i \in 1..n - 1 : keys[f[i]] >= keys[f[i + 1]]}
    IN  {[i \in 1..k |-> table[f[i]]] : f \in orders}

\* ORDER BY Heartbeat.timestamp and ORDER BY PlaybackEvent.started_at
HeartbeatKeys == [i \in 1..Len(heartbeats) |-> heartbeats[i].timestamp]
PlaybackKeys == [i \in 1..Len(playback_events) |-> playback_events[i].started_at]

\* GET /api/debug/heartbeats?limit=
debug_heartbeats(limit) ==
    /\ UNCHANGED <<txn, distributors>>
    /\ call' = [op |-> "debug_heartbeats", limit |-> limit]
    /\ \E rows \in NewestFirst(heartbeats, HeartbeatKeys, limit) :
        resp' = Ok(rows)
    /\ UNCHANGED <<db, now>>

\* GET /api/debug/playback-events?limit=
debug_playback_events(limit) ==
    /\ UNCHANGED <<txn, distributors>>
    /\ call' = [op |-> "debug_playback_events", limit |-> limit]
    /\ \E rows \in NewestFirst(playback_events, PlaybackKeys, limit) :
        resp' = Ok(rows)
    /\ UNCHANGED <<db, now>>

(***************************************************************************)
(* Verification and login of distributors.  A session is the pair of       *)
(* cookies username and role that a response sets.                         *)
(***************************************************************************)
MASTER_PASSWORD == "master123"

\* str.strip() and str.lower() on the strings of the model
Strip(s) ==
    CASE s = " D@X.io" -> "D@X.io"
      [] s = " master " -> "master"
      [] s = " 100000 " -> "100000"
      [] OTHER -> s
Lower(s) == IF s = "D@X.io" THEN "d@x.io" ELSE s

SetCookies(location, username, role) ==
    [status_code |-> 303, location |-> location,
     cookies |-> [username |-> Some(username), role |-> Some(role)]]

\* the first distributor with that email
DistributorByEmail(email) ==
    LET found == {i \in 1..Len(distributors) : distributors[i].email = email}
    IN  IF found = {} THEN None
        ELSE Some(CHOOSE i \in found : \A j \in found : i <= j)

\* POST /verify-otp
verify_otp(raw_email, raw_otp) ==
    LET email == Lower(Strip(raw_email))
        found == DistributorByEmail(email)
        d == Value(found)
        dist == distributors[d]
    IN  /\ call' = [op |-> "verify_otp", email |-> email, otp |-> raw_otp]
        /\ IF found = None
           THEN /\ resp' = HTTPException(400, "Unknown email")
                /\ UNCHANGED distributors
           ELSE IF dist.otp_code = None \/ dist.otp_expires_at = None
           THEN /\ resp' = HTTPException(400, "No OTP pending for this account.")
                /\ UNCHANGED distributors
           ELSE IF now > Value(dist.otp_expires_at)
           THEN /\ resp' = HTTPException(400, "OTP expired")
                /\ UNCHANGED distributors
           ELSE IF Strip(raw_otp) # Value(dist.otp_code)
           THEN /\ resp' = HTTPException(400, "Invalid OTP")
                /\ UNCHANGED distributors
           ELSE /\ distributors' = [distributors EXCEPT ![d] =
                       [@ EXCEPT !.is_verified = TRUE, !.otp_code = None,
                                 !.otp_expires_at = None]]
                /\ resp' = Ok([page |-> "verified", email |-> email])
        /\ UNCHANGED <<db, now, txn>>

login_unverified_allowed(raw_username, password, otp) ==
    LET username == Strip(raw_username)
        found == DistributorByEmail(Lower(username))
        d == Value(found)
    IN  /\ call' = [op |-> "login", username |-> username, password |-> password]
        /\ IF found = None \/ username = "master"
           THEN /\ resp' = HTTPException(401, "Invalid email / password")
                /\ UNCHANGED distributors
           ELSE /\ distributors' = [distributors EXCEPT ![d] =
                       [@ EXCEPT !.login_otp = Some(otp),
                                 !.login_otp_expires_at = Some(now + OTP_VALID_SECONDS)]]
                /\ resp' = Ok([page |-> "login_otp", email |-> distributors[d].email])
        /\ UNCHANGED <<db, now, txn>>

\* POST /login; otp is what random.randint draws
login(raw_username, password, otp) ==
    LET username == Strip(raw_username)
        found == DistributorByEmail(Lower(username))
        d == Value(found)
        dist == distributors[d]
    IN  /\ call' = [op |-> "login", username |-> username, password |-> password]
        /\ IF username = "master"
           THEN /\ resp' = IF "master" \notin USERS \/ password # MASTER_PASSWORD
                           THEN HTTPException(401, "Invalid master credentials")
                           ELSE SetCookies("/dashboard", "master", "master")
                /\ UNCHANGED distributors
           ELSE IF found = None \/ dist.password # password
           THEN /\ resp' = HTTPException(401, "Invalid email / password")
                /\ UNCHANGED distributors
           ELSE IF ~dist.is_verified
           THEN /\ resp' = HTTPException(403, "Your email is not verified yet.")
                /\ UNCHANGED distributors
           ELSE /\ distributors' = [distributors EXCEPT ![d] =
                       [@ EXCEPT !.login_otp = Some(otp),
                                 !.login_otp_expires_at = Some(now + OTP_VALID_SECONDS)]]
                /\ resp' = Ok([page |-> "login_otp", email |-> dist.email])
        /\ UNCHANGED <<db, now, txn>>

login_otp_reusable(raw_email, raw_otp) ==
    LET email == Lower(Strip(raw_email))
        found == DistributorByEmail(email)
        d == Value(found)
        dist == distributors[d]
    IN  /\ call' = [op |-> "login_otp", email |-> email, otp |-> raw_otp]
        /\ IF found = None
           THEN /\ resp' = HTTPException(400, "Unknown email.")
                /\ UNCHANGED distributors
           ELSE IF dist.login_otp = None \/ dist.login_otp_expires_at = None
           THEN /\ resp' = HTTPException(400, "No login OTP requested for this account.")
                /\ UNCHANGED distributors
           ELSE IF now > Value(dist.login_otp_expires_at)
           THEN /\ resp' = HTTPException(400, "Login OTP expired. Please log in again.")
                /\ UNCHANGED distributors
           ELSE IF Strip(raw_otp) # Value(dist.login_otp)
           THEN /\ resp' = HTTPException(400, "Invalid OTP. Please try again.")
                /\ UNCHANGED distributors
           ELSE /\ distributors' = [distributors EXCEPT ![d] =
                       [@ EXCEPT !.last_login_at = Some(now)]]
                /\ resp' = SetCookies("/dashboard", dist.username, "distributor")
        /\ UNCHANGED <<db, now, txn>>

\* POST /login-otp
login_otp(raw_email, raw_otp) ==
    LET email == Lower(Strip(raw_email))
        found == DistributorByEmail(email)
        d == Value(found)
        dist == distributors[d]
    IN  /\ call' = [op |-> "login_otp", email |-> email, otp |-> raw_otp]
        /\ IF found = None
           THEN /\ resp' = HTTPException(400, "Unknown email.")
                /\ UNCHANGED distributors
           ELSE IF dist.login_otp = None \/ dist.login_otp_expires_at = None
           THEN /\ resp' = HTTPException(400, "No login OTP requested for this account.")
                /\ UNCHANGED distributors
           ELSE IF now > Value(dist.login_otp_expires_at)
           THEN /\ resp' = HTTPException(400, "Login OTP expired. Please log in again.")
                /\ UNCHANGED distributors
           ELSE IF Strip(raw_otp) # Value(dist.login_otp)
           THEN /\ resp' = HTTPException(400, "Invalid OTP. Please try again.")
                /\ UNCHANGED distributors
           ELSE /\ distributors' = [distributors EXCEPT ![d] =
                       [@ EXCEPT !.login_otp = None, !.login_otp_expires_at = None,
                                 !.last_login_at = Some(now)]]
                /\ resp' = SetCookies("/dashboard", dist.username, "distributor")
        /\ UNCHANGED <<db, now, txn>>

\* GET /logout
logout ==
    /\ call' = [op |-> "logout"]
    /\ resp' = [status_code |-> 303, location |-> "/login",
                cookies |-> [username |-> None, role |-> None]]
    /\ UNCHANGED <<db, distributors, now, txn>>

\* Every handler of the service that reads or writes the database, each with
\* one accepted and one rejected request where it can reject: the sample
\* data, one more screen and ad, one distributor, heartbeats of screen 1 and
\* of a screen that is never created, one play.
AllInstants == {0, 601}
AllHeartbeatIn ==
    {[screen_id |-> s, current_ad_id |-> Some(1), player_status |-> None] :
        s \in {1, MaxScreens + 1}}
AllWindowMinutes == {0, 60}

WriteSteps ==
    \/ setup_sample
    \/ create_screen(1)
    \/ create_bulk_screens(1, 1)
    \/ upload_ad(2)
    \/ \E hb \in AllHeartbeatIn : heartbeat(hb)
    \/ \E ev \in LivePlaybackIn : playback_event(ev)
    \/ signup_post(" D@X.io", "pw", "100000")
    \/ \E otp \in {" 100000 ", "999999"} : verify_otp("d@x.io", otp)
    \/ \E pw \in {"pw", "bad"} : login(" D@X.io", pw, "100000")
    \/ \E otp \in {"100000", "999999"} : login_otp("d@x.io", otp)

ReadSteps ==
    \/ current_ad_for_company(1, 1)
    \/ ad_metrics_today(1)
    \/ \E w \in AllWindowMinutes : uptime_metrics(w)
    \/ list_screens
    \/ list_ads
    \/ get_playlist(1)
    \/ debug_heartbeats(1)
    \/ debug_playback_events(-1)
    \/ \E k \in Cookies : dashboard(k.username, k.role)
    \/ logout

NextAll ==
    \/ \E t \in AllInstants : Tick(t)
    \/ WriteSteps
    \/ ReadSteps

SpecAll == Init /\ [][NextAll]_vars

\* The month window on the master dashboard: the clock at the last second
\* of months of 28, 29, 30 and 31 days and of a year and at the first second
\* after each, and plays that start at the clock reading.
Instant(year, month, day, second) ==
    DaysFromCivil(year, month, day) * SECONDS_PER_DAY + second

MonthInstants ==
    {Instant(2023, 2, 28, 86399), Instant(2023, 3, 1, 0),
     Instant(2024, 1, 31, 86399), Instant(2024, 2, 1, 0),
     Instant(2024, 2, 29, 86399), Instant(2024, 3, 1, 0),
     Instant(2024, 4, 30, 86399), Instant(2024, 5, 1, 0),
     Instant(2024, 12, 31, 86399), Instant(2025, 1, 1, 0)}

NextMonth ==
    \/ \E t \in MonthInstants : Tick(t)
    \/ setup_sample
    \/ playback_event([screen_id |-> 1, ad_id |-> 1, started_at |-> now,
                       ended_at |-> now + 30, status |-> None])
    \/ dashboard(Some("master"), Some("master"))

SpecMonth == Init /\ [][NextMonth]_vars

\* Sign-up, verification and login of two distributors with passwords of
\* their own, an address nobody registered, and the master account; the
\* clock stands at the issue of a code, at its expiry and one second later.
AuthInstants == {0, 600, 601}
AuthAccounts == {[email |-> " D@X.io", password |-> "pw"],
                 [email |-> "e@x.io", password |-> "pw2"]}
AuthEmails == {" D@X.io", "e@x.io", "u@x.io"}
AuthUsernames == AuthEmails \cup {" master "}
AuthPasswords == {"pw", "pw2", MASTER_PASSWORD}
SubmittedOtps == {"100000", " 100000 ", "999999"}

NextAuth ==
    \/ \E t \in AuthInstants : Tick(t)
    \/ \E a \in AuthAccounts, otp \in Otps : signup_post(a.email, a.password, otp)
    \/ \E email \in AuthEmails, otp \in SubmittedOtps : verify_otp(email, otp)
    \/ \E username \in AuthUsernames, password \in AuthPasswords, otp \in Otps :
           login(username, password, otp)
    \/ \E email \in AuthEmails, otp \in SubmittedOtps : login_otp(email, otp)
    \/ logout

SpecAuth == Init /\ [][NextAuth]_vars

(***************************************************************************)
(* Properties.  The latest heartbeat of a screen is restated here from the *)
(* table alone, independently of the query operators above.                *)
(***************************************************************************)
RowsOf(s) == {i \in 1..Len(heartbeats) : heartbeats[i].screen_id = s}

HasHeartbeat(s) == \E i \in 1..Len(heartbeats) : heartbeats[i].screen_id = s

\* the greatest timestamp among the heartbeats of screen s
LatestTimestamp(s) ==
    CHOOSE t \in {heartbeats[i].timestamp : i \in RowsOf(s)} :
        \A i \in 1..Len(heartbeats) :
            heartbeats[i].screen_id = s => heartbeats[i].timestamp <= t

\* the heartbeats of s that carry the greatest timestamp
LatestRows(s) ==
    {i \in 1..Len(heartbeats) :
        /\ heartbeats[i].screen_id = s
        /\ heartbeats[i].timestamp = LatestTimestamp(s)}

\* the liveness query has just answered for an existing screen
Answered ==
    /\ call.op = "current_ad_for_company"
    /\ call.screen_id \in 1..Len(screens)

NamesExistingAd(i) ==
    /\ heartbeats[i].current_ad_id # None
    /\ Value(heartbeats[i].current_ad_id) \in 1..Len(ads)

NamesUnknownAd(i) ==
    /\ heartbeats[i].current_ad_id # None
    /\ Value(heartbeats[i].current_ad_id) \notin 1..Len(ads)

\* C1: for an existing screen with at least one heartbeat the query reports
\* online = true if and only if now minus the timestamp of the screen's latest
\* heartbeat is at most 120 seconds (120 s is online, 121 s is offline).
C1_OnlineIffAgeAtMost120 ==
    (Answered /\ HasHeartbeat(call.screen_id)) =>
        /\ resp.status_code = 200
        /\ resp.body.online <=> (now - LatestTimestamp(call.screen_id) <= 120)

C1_Witness ==
    /\ Answered /\ HasHeartbeat(call.screen_id)
    /\ resp.status_code = 200
    /\ resp.body.online
    /\ now - LatestTimestamp(call.screen_id) = 120

\* C2: for an existing screen without any heartbeat the query answers
\* online = false, current_ad = none and the message "No heartbeats yet",
\* whatever playback events and heartbeats of other screens are stored.
C2_NoHeartbeatIsOffline ==
    (Answered /\ ~HasHeartbeat(call.screen_id)) =>
        /\ resp.status_code = 200
        /\ resp.body.online = FALSE
        /\ resp.body.current_ad = None
        /\ resp.body.message = "No heartbeats yet"

C2_Witness ==
    /\ Answered /\ ~HasHeartbeat(call.screen_id)
    /\ resp.status_code = 200 /\ resp.body.online = FALSE
    /\ \E i \in 1..Len(heartbeats) :
           /\ heartbeats[i].screen_id # call.screen_id
           /\ heartbeats[i].timestamp = now
    /\ \E k \in 1..Len(playback_events) :
           playback_events[k].screen_id = call.screen_id

\* C3: when the latest heartbeat of a screen names an existing ad and is older
\* than 120 seconds the query answers online = false and still returns that ad
\* as current_ad; as long as no further heartbeat of the screen is stored the
\* answer stays offline with the same ad at every later clock reading.
OfflineWithAd(r) ==
    /\ r.status_code = 200
    /\ r.body.online = FALSE
    /\ r.body.current_ad # None

C3_StaleAdReported ==
    (/\ Answered /\ HasHeartbeat(call.screen_id)
     /\ \A i \in LatestRows(call.screen_id) : NamesExistingAd(i)
     /\ now - LatestTimestamp(call.screen_id) > 120) =>
        /\ OfflineWithAd(resp)
        /\ \E i \in LatestRows(call.screen_id) :
              Value(resp.body.current_ad).id = Value(heartbeats[i].current_ad_id)

\* (a step that changes neither the tables nor the clock changes no answer)
C3_StaysOffline ==
    \/ UNCHANGED <<db, now>>
    \/ \A s \in ScreenIds :
          (HasHeartbeat(s) /\ s \in 1..Len(screens) /\ RowsOf(s)' = RowsOf(s)) =>
              \A c \in CompanyIds :
                  LET stale == {r \in CurrentAdResponses(c, s, now) : OfflineWithAd(r)} IN
                  stale # {} =>
                      /\ stale \subseteq CurrentAdResponses(c, s, now)'
                      /\ \A r \in CurrentAdResponses(c, s, now)' : r.body.online = FALSE

C3_OfflineKeepsLastAd == [] C3_StaleAdReported /\ [][C3_StaysOffline]_vars

C3_Witness ==
    /\ Answered /\ HasHeartbeat(call.screen_id)
    /\ OfflineWithAd(resp)
    /\ now - LatestTimestamp(call.screen_id) > 121

\* C4: when the latest heartbeat names an ad id that is no row of the ads table
\* the query does not fail: it answers 200 with online computed from the age
\* of the heartbeat, current_ad = none and the message "Unknown ad".
C4_UnknownAdTolerated ==
    (/\ Answered /\ HasHeartbeat(call.screen_id)
     /\ \A i \in LatestRows(call.screen_id) : NamesUnknownAd(i)) =>
        /\ resp.status_code = 200
        /\ resp.body.online <=> (now - LatestTimestamp(call.screen_id) <= 120)
        /\ resp.body.current_ad = None
        /\ resp.body.message = "Unknown ad"

C4_Witness ==
    /\ Answered /\ HasHeartbeat(call.screen_id)
    /\ \A i \in LatestRows(call.screen_id) : NamesUnknownAd(i)
    /\ resp.status_code = 200
    /\ resp.body.message = "Unknown ad"
    /\ resp.body.online = FALSE

\* C5: when the latest heartbeat carries no current-ad reference the query
\* answers current_ad = none, online or offline, even if an earlier heartbeat
\* of the same screen named an ad.
C5_NoAdReported ==
    (/\ Answered /\ HasHeartbeat(call.screen_id)
     /\ \A i \in LatestRows(call.screen_id) : heartbeats[i].current_ad_id = None) =>
        /\ resp.status_code = 200
        /\ resp.body.current_ad = None

C5_Witness ==
    /\ Answered /\ HasHeartbeat(call.screen_id)
    /\ \A i \in LatestRows(call.screen_id) : heartbeats[i].current_ad_id = None
    /\ \E j \in 1..Len(heartbeats) :
           /\ heartbeats[j].screen_id = call.screen_id
           /\ heartbeats[j].timestamp < LatestTimestamp(call.screen_id)
           /\ NamesExistingAd(j)
    /\ resp.status_code = 200
    /\ resp.body.current_ad = None
    /\ resp.body.online

\* C6: for every requesting company and every screen whose latest heartbeat
\* names an existing ad, the answer carries that ad with is_yours = true if
\* and only if the ad's owner_company_id equals the requesting company id;
\* an answer without a current ad has no is_yours field at all.
C6_IsYoursIffOwner ==
    Answered =>
        /\ resp.status_code = 200
        /\ (HasHeartbeat(call.screen_id)
            /\ \A i \in LatestRows(call.screen_id) : NamesExistingAd(i)) =>
               /\ resp.body.current_ad # None
               /\ \E i \in LatestRows(call.screen_id) :
                     LET a == Value(heartbeats[i].current_ad_id) IN
                     /\ Value(resp.body.current_ad).id = a
                     /\ Value(resp.body.current_ad).owner_company_id = ads[a].owner_company_id
                     /\ Value(resp.body.current_ad).is_yours
                            <=> (ads[a].owner_company_id = call.company_id)
        /\ resp.body.current_ad = None => "is_yours" \notin DOMAIN resp.body

C6_Witness ==
    /\ Answered
    /\ resp.status_code = 200
    /\ resp.body.current_ad # None
    /\ Value(resp.body.current_ad).is_yours
    /\ call.company_id # screens[call.screen_id].company_id

\* C7: every answer for an existing screen carries last_heartbeat_at: none when
\* the screen has no heartbeat and otherwise the timestamp of the latest
\* heartbeat, whether an ad is present, no ad is reported or the ad is unknown.
LastHeartbeatAt(body) ==
    IF "last_heartbeat_at" \in DOMAIN body THEN Some(body.last_heartbeat_at) ELSE None

C7_LastHeartbeatAtReported ==
    Answered =>
        /\ resp.status_code = 200
        /\ {"online", "current_ad"} \subseteq DOMAIN resp.body
        /\ LastHeartbeatAt(resp.body) =
               IF HasHeartbeat(call.screen_id)
               THEN Some(LatestTimestamp(call.screen_id))
               ELSE None

\* C8: a playback event whose ended_at is earlier than its started_at is
\* rejected, so every stored PlaybackEvent has ended_at >= started_at.
C8_StoredRangesValid ==
    \A k \in 1..Len(playback_events) :
        playback_events[k].ended_at >= playback_events[k].started_at

\* C9: a heartbeat for a screen id that does not exist is answered 404 and
\* changes nothing: no heartbeat is appended and no screen's cached
\* last_heartbeat_at or status changes.
C9_Step ==
    (call'.op = "heartbeat" /\ call'.screen_id \notin 1..Len(screens)) =>
        /\ resp'.status_code = 404
        /\ heartbeats' = heartbeats
        /\ screens' = screens
        /\ UNCHANGED <<companies, ads, playback_events>>

C9_UnknownScreenHeartbeatRejected == [][C9_Step]_vars

C9_Witness ==
    /\ call.op = "heartbeat"
    /\ call.screen_id \notin 1..Len(screens)
    /\ resp.status_code = 404
    /\ Len(screens) > 0
    /\ Len(heartbeats) > 0

\* C10: a playback event for a screen id or an ad id that does not exist is
\* answered 404 and nothing is stored, so every stored PlaybackEvent
\* references a screen and an ad that exist.
C10_Step ==
    (/\ call'.op = "playback_event"
     /\ \/ call'.screen_id \notin 1..Len(screens)
        \/ call'.ad_id \notin 1..Len(ads)) =>
        /\ resp'.status_code = 404
        /\ playback_events' = playback_events

C10_Stored ==
    \A k \in 1..Len(playback_events) :
        /\ playback_events[k].screen_id \in 1..Len(screens)
        /\ playback_events[k].ad_id \in 1..Len(ads)

C10_PlaybackReferencesExist == [] C10_Stored /\ [][C10_Step]_vars

C10_Witness ==
    /\ call.op = "playback_event"
    /\ call.screen_id \in 1..Len(screens)
    /\ call.ad_id \notin 1..Len(ads)
    /\ resp.status_code = 404
    /\ Len(ads) > 0

\* C11: when heartbeat ingestions of one screen run concurrently, once all of
\* them have committed the screen's cached last_heartbeat_at equals the
\* greatest timestamp among the screen's stored heartbeats.
C11_CacheIsLatestTimestamp ==
    \A s \in 1..Len(screens) :
        (/\ HasHeartbeat(s)
         /\ \A w \in Workers : txn[w].pc = "commit" => txn[w].hb.screen_id # s) =>
            screens[s].last_heartbeat_at = Some(LatestTimestamp(s))

\* C12: a successful heartbeat for screen S leaves S's cached
\* last_heartbeat_at equal to the timestamp of the heartbeat it appended, which
\* is the timestamp it returns, and S's cached status 'online'; the cached
\* fields of every other screen are unchanged.
C12_Step ==
    (call'.op = "heartbeat" /\ resp'.status_code = 200) =>
        LET s == call'.screen_id
            new == heartbeats'[Len(heartbeats')]
        IN  /\ Len(heartbeats') = Len(heartbeats) + 1
            /\ new.screen_id = s
            /\ resp'.body.timestamp = new.timestamp
            /\ Len(screens') = Len(screens)
            /\ screens'[s].last_heartbeat_at = Some(new.timestamp)
            /\ screens'[s].status = "online"
            /\ \A o \in 1..Len(screens) : o # s => screens'[o] = screens[o]

C12_HeartbeatUpdatesOwnScreenOnly == [][C12_Step]_vars

C12_Witness ==
    /\ call.op = "heartbeat"
    /\ resp.status_code = 200
    /\ screens[call.screen_id].last_heartbeat_at = Some(resp.body.timestamp)
    /\ \E o \in 1..Len(screens) :
           /\ o # call.screen_id
           /\ screens[o].last_heartbeat_at # None
           /\ screens[o].last_heartbeat_at # screens[call.screen_id].last_heartbeat_at

\* C13: the query answers from the heartbeat with the greatest timestamp among
\* the screen's heartbeats and, when several heartbeats share that timestamp,
\* from the one inserted last.
LastInserted(rows) == CHOOSE i \in rows : \A j \in rows : j <= i

C13_LastInsertedLatestUsed ==
    (Answered /\ HasHeartbeat(call.screen_id)) =>
        resp = CurrentAdResponse(call.company_id, call.screen_id,
                                 heartbeats[LastInserted(LatestRows(call.screen_id))], now)

(***************************************************************************)
(* Uptime metrics                                                          *)
(***************************************************************************)
UptimeAnswered == call.op = "uptime_metrics" /\ resp.status_code = 200

\* the heartbeats of screen s stamped in [t - w minutes, t]
InWindow(s, w, t) ==
    {i \in RowsOf(s) : /\ heartbeats[i].timestamp >= t - w * 60
                       /\ heartbeats[i].timestamp <= t}

\* C14: for every integer window_minutes and every heartbeat log the uptime
\* computation answers with a percentage for each screen and never raises.
C14_UptimeNeverRaises ==
    call.op = "uptime_metrics" =>
        /\ resp.status_code = 200
        /\ Len(resp.body) = Len(screens)

\* C15: for every screen, heartbeat log and window length the reported
\* uptime percentage lies in the closed range [0, 100].
C15_UptimeInRange ==
    UptimeAnswered =>
        \A s \in 1..Len(resp.body) :
            /\ resp.body[s].uptime_percent >= 0
            /\ resp.body[s].uptime_percent <= 100 * 100

C15_Witness ==
    /\ UptimeAnswered
    /\ \E s \in 1..Len(resp.body) : resp.body[s].uptime_percent = 100 * 100
    /\ \E s \in 1..Len(resp.body) : resp.body[s].uptime_percent = 0

\* C16: a screen with no heartbeat stamped in [now - W minutes, now] has
\* uptime 0%, also when it has heartbeats before the window start.
C16_NoWindowHeartbeatIsZero ==
    UptimeAnswered =>
        \A s \in 1..Len(resp.body) :
            InWindow(s, call.window_minutes, now) = {} =>
                resp.body[s].uptime_percent = 0

C16_Witness ==
    /\ UptimeAnswered
    /\ call.window_minutes > 0
    /\ \E s \in 1..Len(resp.body) :
        /\ InWindow(s, call.window_minutes, now) = {}
        /\ \E i, j \in RowsOf(s) : heartbeats[i].timestamp < heartbeats[j].timestamp
        /\ resp.body[s].uptime_percent = 0

\* C17: when a screen has heartbeats in the window its uptime is (timestamp
\* of the last one - timestamp of the first one) / (W * 60) * 100, to the two
\* decimals reported, whatever lies between the two; heartbeats at the
\* window's start and end give 100%.
C17_UptimeFromFirstAndLast ==
    UptimeAnswered =>
        \A s \in 1..Len(resp.body) :
            LET rows == InWindow(s, call.window_minutes, now)
                total == call.window_minutes * 60
                first == CHOOSE i \in rows :
                             \A j \in rows : heartbeats[i].timestamp <= heartbeats[j].timestamp
                last == CHOOSE i \in rows :
                            \A j \in rows : heartbeats[i].timestamp >= heartbeats[j].timestamp
                exact == (heartbeats[last].timestamp - heartbeats[first].timestamp) * 100 * 100
                shown == resp.body[s].uptime_percent * total
            IN  rows # {} =>
                    /\ total > 0
                    /\ 2 * (shown - exact) <= total
                    /\ 2 * (exact - shown) <= total

C17_Witness ==
    /\ UptimeAnswered
    /\ \E s \in 1..Len(resp.body) :
        LET rows == InWindow(s, call.window_minutes, now)
        IN  /\ \E i \in rows : heartbeats[i].timestamp = now - call.window_minutes * 60
            /\ \E i \in rows : heartbeats[i].timestamp = now
            /\ \E i \in rows : /\ heartbeats[i].timestamp > now - call.window_minutes * 60
                               /\ heartbeats[i].timestamp < now
            /\ resp.body[s].uptime_percent = 100 * 100

(***************************************************************************)
(* Company rollup on the master dashboard                                  *)
(***************************************************************************)
MasterAnswered ==
    /\ call.op = "dashboard"
    /\ resp.status_code = 200
    /\ resp.body.view = "master"

OwnScreens(c) == {s \in 1..Len(screens) : screens[s].company_id = c}

\* C18: a company that owns no screen is reported with 0% uptime, without
\* an error.
C18_ZeroScreenCompanyShowsZero ==
    MasterAnswered =>
        \A c \in 1..Len(companies) :
            OwnScreens(companies[c].id) = {} =>
                \E r \in 1..Len(resp.body.rows) :
                    /\ resp.body.rows[r].company_id = companies[c].id
                    /\ resp.body.rows[r].avg_uptime = 0

\* seconds between the first and the last heartbeat of screen s stamped in
\* the last 60 minutes, 0 without such a heartbeat
Observed(s) ==
    LET rows == InWindow(s, 60, now)
        first == CHOOSE i \in rows :
                     \A j \in rows : heartbeats[i].timestamp <= heartbeats[j].timestamp
        last == CHOOSE i \in rows :
                    \A j \in rows : heartbeats[i].timestamp >= heartbeats[j].timestamp
    IN  IF rows = {} THEN 0
        ELSE heartbeats[last].timestamp - heartbeats[first].timestamp

RECURSIVE ObservedSum(_)
ObservedSum(S) ==
    IF S = {} THEN 0
    ELSE LET s == CHOOSE x \in S : TRUE
         IN  Observed(s) + ObservedSum(S \ {s})

\* C19: the uptime of a company is the unweighted mean of the uptime
\* percentages of exactly the screens whose company_id is that company, to
\* the two decimals reported; a screen without in-window heartbeat counts 0.
C19_CompanyUptimeIsMean ==
    MasterAnswered =>
        \A r \in 1..Len(resp.body.rows) :
            LET own == OwnScreens(resp.body.rows[r].company_id)
                n == Cardinality(own)
                exact == ObservedSum(own) * 100 * 100
                shown == resp.body.rows[r].avg_uptime * 60 * 60 * n
            IN  /\ n > 0
                /\ resp.body.rows[r].screens = n
                /\ 2 * (shown - exact) <= 60 * 60 * n
                /\ 2 * (exact - shown) <= 60 * 60 * n

C19_Witness ==
    /\ MasterAnswered
    /\ \E r \in 1..Len(resp.body.rows) :
        LET own == OwnScreens(resp.body.rows[r].company_id)
        IN  /\ \E s \in own : InWindow(s, 60, now) = {}
            /\ \E s \in own : Observed(s) > 0
            /\ resp.body.rows[r].avg_uptime > 0
            /\ resp.body.rows[r].avg_uptime * 60 * 60 * 2 = ObservedSum(own) * 100 * 100

(***************************************************************************)
(* Play counts                                                             *)
(***************************************************************************)
\* the playback events of ad a that start on the calendar day of instant t
StartedOnDayOf(a, t) ==
    {i \in 1..Len(playback_events) :
        /\ playback_events[i].ad_id = a
        /\ playback_events[i].started_at \div 86400 = t \div 86400}

C20_Count ==
    (call.op = "ad_metrics_today" /\ resp.status_code = 200) =>
        resp.body.plays_today = Cardinality(StartedOnDayOf(call.ad_id, now))

C20_Step ==
    (call'.op = "playback_event" /\ resp'.status_code = 200) =>
        LET new == playback_events'[Len(playback_events')]
        IN  /\ Len(playback_events') = Len(playback_events) + 1
            /\ \A a \in AdIds :
                PlaysCount(a, StartOfDay(now), EndOfDay(now))' =
                    PlaysCount(a, StartOfDay(now), EndOfDay(now)) +
                        (IF /\ new.ad_id = a
                            /\ new.started_at \div 86400 = now \div 86400
                         THEN 1 ELSE 0)

\* C20: plays_count of an ad is the number of its playback events that start
\* in the window: 0 without such an event, and every accepted playback event
\* of the ad that starts in the window raises it by exactly 1 whatever its
\* status; events of other ads never change it.
C20_PlaysCounted == [] C20_Count /\ [][C20_Step]_vars

C20_Witness ==
    /\ call.op = "ad_metrics_today"
    /\ resp.status_code = 200
    /\ resp.body.plays_today = 1
    /\ now >= 86400
    /\ \E i \in StartedOnDayOf(call.ad_id, now) : playback_events[i].status = "failed"

(***************************************************************************)
(* Day windows and play time                                               *)
(***************************************************************************)
\* first instant of the calendar day of instant t
Midnight(t) == 86400 * (t \div 86400)

\* the playback events that start at or after the midnight of now and
\* before the next midnight
StartedToday == {i \in 1..Len(playback_events) :
                    /\ Midnight(now) <= playback_events[i].started_at
                    /\ playback_events[i].started_at < Midnight(now) + 86400}

RECURSIVE Duration(_)
Duration(S) ==
    IF S = {} THEN 0
    ELSE LET i == CHOOSE x \in S : TRUE
         IN  (playback_events[i].ended_at - playback_events[i].started_at)
                + Duration(S \ {i})

\* C21: a playback event belongs to a day by its started_at alone and the
\* day window is half open: the per-ad count and the play seconds of today
\* take exactly the events with midnight <= started_at < next midnight,
\* whatever their ended_at.
C21_DayByStartHalfOpen ==
    /\ (call.op = "ad_metrics_today" /\ resp.status_code = 200) =>
        resp.body.plays_today =
            Cardinality({i \in StartedToday : playback_events[i].ad_id = call.ad_id})
    /\ MasterAnswered =>
        \A r \in 1..Len(resp.body.rows) :
            resp.body.rows[r].total_secs_today =
                Duration({i \in StartedToday :
                    playback_events[i].screen_id \in OwnScreens(resp.body.rows[r].company_id)})

C21_Witness ==
    /\ call.op = "ad_metrics_today"
    /\ resp.status_code = 200
    /\ resp.body.plays_today = 1
    /\ \E i \in 1..Len(playback_events) :
        /\ playback_events[i].ad_id = call.ad_id
        /\ playback_events[i].started_at < Midnight(now) + 86400
        /\ playback_events[i].ended_at > Midnight(now) + 86400

\* C22: the play seconds that the dashboard totals are never negative.
C22_PlaySecondsNotNegative ==
    MasterAnswered =>
        \A r \in 1..Len(resp.body.rows) :
            /\ resp.body.rows[r].total_secs_today >= 0
            /\ resp.body.rows[r].total_secs_month >= 0

(***************************************************************************)
(* The event store                                                         *)
(***************************************************************************)
\* the rows of a table before a step are its first rows after the step
Kept(table, table_after) ==
    /\ Len(table_after) >= Len(table)
    /\ \A i \in 1..Len(table) : table_after[i] = table[i]

C23_Step ==
    \/ UNCHANGED <<heartbeats, playback_events>>
    \/ /\ Kept(heartbeats, heartbeats')
       /\ Kept(playback_events, playback_events')
       /\ Len(heartbeats') # Len(heartbeats) =>
            /\ Len(heartbeats') = Len(heartbeats) + 1
            /\ call'.op = "heartbeat" /\ resp'.status_code = 200
            /\ UNCHANGED playback_events
       /\ Len(playback_events') # Len(playback_events) =>
            /\ Len(playback_events') = Len(playback_events) + 1
            /\ call'.op = "playback_event" /\ resp'.status_code = 200
            /\ UNCHANGED heartbeats

C23_OneRowPerAcceptedCall ==
    /\ (call'.op = "heartbeat" /\ resp'.status_code = 200) =>
            Len(heartbeats') = Len(heartbeats) + 1
    /\ (call'.op = "playback_event" /\ resp'.status_code = 200) =>
            Len(playback_events') = Len(playback_events) + 1

\* C23: heartbeat and playback records are append-only: every step of every
\* operation keeps each stored record with its fields, and a record is added
\* only by an accepted heartbeat or playback ingestion, one per call.
C23_EventsAppendOnly == [][C23_Step /\ C23_OneRowPerAcceptedCall]_vars

C23_Witness ==
    /\ Len(heartbeats) >= 2
    /\ Len(playback_events) >= 1
    /\ Len(distributors) >= 1
    /\ call.op = "heartbeat"
    /\ resp.status_code = 200
    /\ heartbeats[1].timestamp < heartbeats[2].timestamp

(***************************************************************************)
(* Reads                                                                   *)
(***************************************************************************)
ReadOps == {"current_ad_for_company", "ad_metrics_today", "uptime_metrics",
            "debug_heartbeats", "debug_playback_events"}

\* the reads whose answer does not depend on the order of equal timestamps
ExactReadOps == {"ad_metrics_today", "uptime_metrics"}

C24_Frame ==
    call'.op \in ReadOps =>
        UNCHANGED <<companies, screens, ads, heartbeats, playback_events,
                    distributors, now>>

C24_Repeat ==
    call' = call =>
        /\ call'.op \in ExactReadOps => resp' = resp
        /\ call'.op = "current_ad_for_company" =>
              resp' \in CurrentAdResponses(call.company_id, call.screen_id, now)
        /\ call'.op = "debug_heartbeats" =>
              resp'.body \in NewestFirst(heartbeats, HeartbeatKeys, call.limit)
        /\ call'.op = "debug_playback_events" =>
              resp'.body \in NewestFirst(playback_events, PlaybackKeys, call.limit)

\* C24: the liveness / attribution query, the ad metrics, the uptime
\* metrics and the debug listings change no company, screen, ad, heartbeat,
\* playback event or distributor, and the same read repeated at the same
\* instant answers as the first one could (the same answer where the order
\* of equal timestamps plays no role).
C24_ReadsChangeNothing == [][C24_Frame /\ C24_Repeat]_vars

C24_Witness ==
    /\ call.op = "uptime_metrics"
    /\ resp.status_code = 200
    /\ Len(heartbeats) >= 2
    /\ Len(playback_events) >= 1
    /\ \E s \in 1..Len(screens) :
        /\ screens[s].status = "online"
        /\ screens[s].last_heartbeat_at # None
        /\ Value(screens[s].last_heartbeat_at) + ONLINE_THRESHOLD < now

(***************************************************************************)
(* Queries that name a missing screen, ad or company                       *)
(***************************************************************************)
CompanyKnown(c) == \E i \in 1..Len(companies) : companies[i].id = c

\* C25: the liveness / attribution query for an unknown screen or an
\* unknown company, and the ad metrics for an unknown ad, answer NotFound.
C25_UnknownNamesNotFound ==
    /\ (/\ call.op = "current_ad_for_company"
        /\ \/ call.screen_id \notin 1..Len(screens)
           \/ ~CompanyKnown(call.company_id)) => resp.status_code = 404
    /\ (/\ call.op = "ad_metrics_today"
        /\ call.ad_id \notin 1..Len(ads)) => resp.status_code = 404

(***************************************************************************)
(* The month window                                                        *)
(***************************************************************************)
IsLeap(y) == (y % 4 = 0 /\ y % 100 # 0) \/ y % 400 = 0

DaysIn(y, m) ==
    IF m = 2 THEN (IF IsLeap(y) THEN 29 ELSE 28)
    ELSE IF m \in {4, 6, 9, 11} THEN 30 ELSE 31

\* leap years before year y
LeapsBefore(y) == ((y - 1) \div 4) - ((y - 1) \div 100) + ((y - 1) \div 400)

\* days of year y before its month m, counted month by month
RECURSIVE DaysBefore(_, _)
DaysBefore(y, m) == IF m = 1 THEN 0 ELSE DaysBefore(y, m - 1) + DaysIn(y, m - 1)

\* days from 1970-01-01 to the first day of month m of year y
FirstDay(y, m) ==
    365 * (y - 1970) + (LeapsBefore(y) - LeapsBefore(1970)) + DaysBefore(y, m)

\* the month [year, month] of the calendar that holds instant t
MonthOf(t) ==
    CHOOSE ym \in [year : 1970..2037, month : 1..12] :
        /\ FirstDay(ym.year, ym.month) * 86400 <= t
        /\ t < (FirstDay(ym.year, ym.month) + DaysIn(ym.year, ym.month)) * 86400

MonthStart(t) == FirstDay(MonthOf(t).year, MonthOf(t).month) * 86400
NextMonthStart(t) ==
    IF MonthOf(t).month = 12 THEN FirstDay(MonthOf(t).year + 1, 1) * 86400
    ELSE FirstDay(MonthOf(t).year, MonthOf(t).month + 1) * 86400

\* C26: at every clock reading the month window is [first instant of the
\* current month, first instant of the next calendar month), December rolls
\* over to January of the next year, the today window lies inside it, and
\* the dashboard's play seconds of the month are those of the plays that
\* start in it.
C26_MonthWindow ==
    /\ StartOfMonth(now) = MonthStart(now)
    /\ EndOfMonth(now) = NextMonthStart(now)
    /\ StartOfMonth(now) <= StartOfDay(now)
    /\ EndOfDay(now) <= EndOfMonth(now)
    /\ MasterAnswered =>
        \A r \in 1..Len(resp.body.rows) :
            resp.body.rows[r].total_secs_month =
                Duration({i \in 1..Len(playback_events) :
                    /\ playback_events[i].screen_id
                           \in OwnScreens(resp.body.rows[r].company_id)
                    /\ MonthStart(now) <= playback_events[i].started_at
                    /\ playback_events[i].started_at < NextMonthStart(now)})

C26_Witness ==
    /\ MasterAnswered
    /\ MonthOf(now) = [year |-> 2025, month |-> 1]
    /\ \E i \in 1..Len(playback_events) :
        MonthOf(playback_events[i].started_at) = [year |-> 2024, month |-> 12]
    /\ \E r \in 1..Len(resp.body.rows) : resp.body.rows[r].total_secs_month = 0

(***************************************************************************)
(* The cached screen status                                                *)
(***************************************************************************)
C27_OnlineSinceFirstHeartbeat ==
    \A s \in 1..Len(screens) :
        screens[s].status = (IF RowsOf(s) = {} THEN "offline" ELSE "online")

C27_Step ==
    \/ UNCHANGED screens
    \/ /\ Len(screens') >= Len(screens)
       /\ \A s \in 1..Len(screens) :
            screens[s].status = "online" => screens'[s].status = "online"
       /\ \A s \in 1..Len(screens') :
            s > Len(screens) => screens'[s].status = "offline"

\* C27: the cached status of a screen starts 'offline', is 'online' from
\* the screen's first accepted heartbeat on, and no operation sets it back.
C27_StatusMonotone == [] C27_OnlineSinceFirstHeartbeat /\ [][C27_Step]_vars

\* the screen listing says 'online' for a screen that the liveness query
\* reports offline at the same instant
C27_Witness ==
    /\ call.op = "list_screens"
    /\ resp.status_code = 200
    /\ \E s \in 1..Len(resp.body) :
        /\ resp.body[s].status = "online"
        /\ \A r \in CurrentAdResponses(1, s, now) :
            r.status_code = 200 /\ ~r.body.online

(***************************************************************************)
(* Uptime of a screen that reported at one instant only                    *)
(***************************************************************************)
\* the heartbeats of screen s in the window all carry one timestamp
OneInstant(s, w, t) ==
    /\ InWindow(s, w, t) # {}
    /\ \A i, j \in InWindow(s, w, t) : heartbeats[i].timestamp = heartbeats[j].timestamp

\* C28: a screen with exactly one heartbeat in the window, or several that
\* share one timestamp, has uptime 0%, also when that heartbeat is recent
\* enough for the screen to be online.
C28_OneInstantIsZero ==
    UptimeAnswered =>
        \A s \in 1..Len(resp.body) :
            OneInstant(s, call.window_minutes, now) => resp.body[s].uptime_percent = 0

C28_Witness ==
    /\ UptimeAnswered
    /\ \E s \in 1..Len(resp.body) :
        /\ OneInstant(s, call.window_minutes, now)
        /\ Cardinality(InWindow(s, call.window_minutes, now)) >= 2
        /\ \A i \in InWindow(s, call.window_minutes, now) :
            now - heartbeats[i].timestamp <= ONLINE_THRESHOLD
        /\ resp.body[s].uptime_percent = 0
    /\ \E s \in 1..Len(resp.body) :
        /\ Cardinality(InWindow(s, call.window_minutes, now)) = 1
        /\ resp.body[s].uptime_percent = 0

(***************************************************************************)
(* Distributor sessions                                                    *)
(***************************************************************************)
\* a response that sets the cookies of a distributor session
DistributorSession(r) ==
    /\ "cookies" \in DOMAIN r
    /\ r.cookies.role = Some("distributor")

\* a login code is pending only for a verified distributor, and expires at
\* most ten minutes from now
C29_PendingLoginOtp ==
    \A d \in 1..Len(distributors) :
        distributors[d].login_otp # None =>
            /\ distributors[d].is_verified
            /\ distributors[d].login_otp_expires_at # None
            /\ Value(distributors[d].login_otp_expires_at) <= now + OTP_VALID_SECONDS

\* a distributor becomes verified only by submitting the sign-up code of
\* the account no later than its expiry
C29_VerifyStep ==
    \A d \in 1..Len(distributors') :
        (distributors'[d].is_verified /\ (d > Len(distributors) \/ ~distributors[d].is_verified)) =>
            /\ d <= Len(distributors)
            /\ call'.op = "verify_otp"
            /\ call'.email = distributors[d].email
            /\ distributors[d].otp_code = Some(Strip(call'.otp))
            /\ now <= Value(distributors[d].otp_expires_at)

\* a login code is stored only by a login that named the account and gave
\* its password, for a verified distributor, valid for ten minutes
C29_IssueStep ==
    \A d \in 1..Len(distributors') :
        (/\ distributors'[d].login_otp # None
         /\ \/ d > Len(distributors)
            \/ distributors'[d].login_otp # distributors[d].login_otp
            \/ distributors'[d].login_otp_expires_at # distributors[d].login_otp_expires_at) =>
            /\ d <= Len(distributors)
            /\ call'.op = "login"
            /\ Lower(call'.username) = distributors[d].email
            /\ call'.password = distributors[d].password
            /\ distributors[d].is_verified
            /\ resp'.status_code = 200
            /\ distributors'[d].login_otp_expires_at = Some(now + OTP_VALID_SECONDS)

\* the cookies of a distributor session are set only by login_otp, for the
\* account whose pending login code was submitted no later than its expiry
C29_SessionStep ==
    DistributorSession(resp') =>
        /\ call'.op = "login_otp"
        /\ \E d \in 1..Len(distributors) :
            /\ distributors[d].email = call'.email
            /\ resp'.cookies.username = Some(distributors[d].username)
            /\ distributors[d].is_verified
            /\ distributors[d].login_otp = Some(Strip(call'.otp))
            /\ distributors[d].login_otp_expires_at # None
            /\ now <= Value(distributors[d].login_otp_expires_at)

\* C29: a distributor session (cookies username and role=distributor) is
\* issued only by login_otp, and only for a distributor who is verified,
\* passed the password check in login, and submitted the login code that
\* this login issued while it had not expired; no other call of signup,
\* verify_otp, login or login_otp issues one.
C29_SessionOnlyAfterLoginOtp ==
    /\ [] C29_PendingLoginOtp
    /\ [][C29_VerifyStep /\ C29_IssueStep /\ C29_SessionStep]_vars

\* a session issued ten minutes after the first sign-up, with both
\* distributors registered
C29_Witness ==
    /\ DistributorSession(resp)
    /\ call.op = "login_otp"
    /\ now = OTP_VALID_SECONDS
    /\ Len(distributors) = 2
    /\ \E d \in 1..Len(distributors) :
        /\ distributors[d].email = call.email
        /\ distributors[d].is_verified
        /\ distributors[d].last_login_at = Some(now)
        /\ distributors[d].login_otp = None

(***************************************************************************)
(* One-time passcodes                                                      *)
(***************************************************************************)
\* the step serves verify_otp or login_otp for the account of distributor d
SubmitsOtp(op, d) ==
    /\ call'.op = op
    /\ d \in 1..Len(distributors)
    /\ distributors[d].email = call'.email

Rejected(r) == r.status_code = 400

\* an accepted code is cleared together with its expiry
C30_ClearedOnSuccess ==
    \A d \in 1..Len(distributors) :
        /\ (SubmitsOtp("verify_otp", d) /\ ~Rejected(resp')) =>
               /\ distributors[d].otp_code = Some(Strip(call'.otp))
               /\ distributors'[d].otp_code = None
               /\ distributors'[d].otp_expires_at = None
        /\ (SubmitsOtp("login_otp", d) /\ ~Rejected(resp')) =>
               /\ distributors[d].login_otp = Some(Strip(call'.otp))
               /\ distributors'[d].login_otp = None
               /\ distributors'[d].login_otp_expires_at = None

\* with no code pending every submission is rejected, whatever it carries
C30_RejectedWhileCleared ==
    \A d \in 1..Len(distributors) :
        /\ (SubmitsOtp("verify_otp", d) /\ distributors[d].otp_code = None) => Rejected(resp')
        /\ (SubmitsOtp("login_otp", d) /\ distributors[d].login_otp = None) => Rejected(resp')

\* a submission directly after an accepted one for the same account fails
C30_ResubmissionRejected ==
    (/\ call.op \in {"verify_otp", "login_otp"}
     /\ ~Rejected(resp)
     /\ call'.op = call.op
     /\ call'.email = call.email) => Rejected(resp')

\* a rejected submission writes nothing
C30_FailedChangesNothing ==
    (call'.op \in {"verify_otp", "login_otp"} /\ Rejected(resp')) =>
        UNCHANGED <<distributors, db>>

\* C30: one-time passcodes are single-use.  A successful verify_otp clears
\* the sign-up code and a successful login_otp clears the login code, so the
\* same code submitted again is rejected until a login issues a new one; a
\* failed attempt (wrong or expired code) leaves the distributor record as
\* it was.
C30_OtpSingleUse ==
    [][/\ C30_ClearedOnSuccess
       /\ C30_RejectedWhileCleared
       /\ C30_ResubmissionRejected
       /\ C30_FailedChangesNothing]_vars

\* the code that opened a session an instant ago is refused, while the
\* sign-up code of the same account is long cleared
C30_Witness ==
    /\ call.op = "login_otp"
    /\ resp = HTTPException(400, "No login OTP requested for this account.")
    /\ \E d \in 1..Len(distributors) :
        /\ distributors[d].email = call.email
        /\ distributors[d].last_login_at = Some(now)
        /\ distributors[d].login_otp = None
        /\ distributors[d].otp_code = None
        /\ distributors[d].is_verified

====
